---- MODULE Spec2Model ----
(***************************************************************************)
(* A model of the smart-bag sensor drivers: the DHT22 one-wire climate     *)
(* decoder (src/dht22.c, declared in src/unnamed/part_001) and the HX711   *)
(* load-cell calibration (declared in src/hx711.h).                        *)
(*                                                                         *)
(* Time is the microsecond count since boot.  Code steps take no time;     *)
(* time passes in the sleeps, in the busy-wait loop of wait_for_pin_state  *)
(* and while the application is between two driver calls.                  *)
(***************************************************************************)
EXTENDS Integers, Sequences, FiniteSets, TLC

VARIABLES
    dht22_state,    \* the driver's global state (dht22.c:19)
    epoch,          \* the clocks' readings at the model's time 0
    now,            \* microseconds since the model's time 0
    gpio_dir,       \* per pin: "in" or "out"
    gpio_out,       \* per pin: the level the output latch drives
    gpio_pull,      \* per pin: pull-up enabled
    line,           \* the level of the sensor's data wire when the host does not drive it
    sensor,         \* the sensor's transmission in progress
    pc,             \* position of the running driver call
    op,             \* the API call in progress: "none", "init", "read"
    arg_pin,        \* dht22_init's argument
    result,         \* the value the call returns
    data,           \* dht22_read's frame buffer, uint8_t data[5]
    i,              \* dht22_read_data's loop index
    current_time,   \* dht22_read's current_time
    pulse_start,    \* dht22_read_data's pulse_start
    pulse_length,   \* dht22_read_data's pulse_length
    w,              \* the running wait_for_pin_state call
    temperature,    \* the caller's *temperature
    humidity,       \* the caller's *humidity
    entry,          \* what the call found on entry
    hwUsed,         \* the kinds of hardware access the call has made
    trace,          \* the pin writes, direction changes and sleeps the call has made
    calls,          \* number of API calls made
    prior,          \* since the last dht22_init: the latest dht22_read to return,
                    \* and whether a read has set the timestamp
    waits,          \* number of wait_for_pin_state calls the running call has made
    real,           \* the model's time at which the running wait and the running
                    \* pulse measurement read their start (us), and at which the
                    \* timestamp was set (ms)
    scale_factor,   \* hx711: the global scale factor
    hx_cal,         \* hx711: the arguments of the last calibration that was stored
    hx_ret          \* hx711: the last hx711 call and what it returned

vars == <<dht22_state, epoch, now, gpio_dir, gpio_out, gpio_pull, line, sensor, pc, op,
          arg_pin, result, data, i, current_time, pulse_start, pulse_length, w,
          temperature, humidity, entry, hwUsed, trace, calls, prior, waits, real,
          scale_factor, hx_cal, hx_ret>>

dhtVars == <<dht22_state, epoch, now, gpio_dir, gpio_out, gpio_pull, line, sensor, pc, op,
          arg_pin, result, data, i, current_time, pulse_start, pulse_length, w,
          temperature, humidity, entry, hwUsed, trace, calls, prior, waits, real>>

hxVars == <<scale_factor, hx_cal, hx_ret>>

\* what the steps of the climate driver leave alone (the count of waits: all
\* but the calls, the returns and the begin of a wait; the real times: all but
\* the steps that read a clock to keep it or that use what they kept)
restVars == <<epoch, waits, real, scale_factor, hx_cal, hx_ret>>

----------------------------------------------------------------------------
(* Program constants *)

DHT22_OK == 0
DHT22_ERROR_CHECKSUM == -1
DHT22_ERROR_TIMEOUT == -2
DHT22_ERROR_INVALID_DATA == -3
DHT22_ERROR_NOT_INITIALIZED == -4

DHT22_START_SIGNAL_DELAY == 18000
DHT22_RESPONSE_WAIT_TIMEOUT == 200
DHT22_BIT_THRESHOLD == 50
DHT22_MIN_INTERVAL_MS == 2000

START_HIGH_US == 30
NUM_BITS == 40

----------------------------------------------------------------------------
(* Bounds of the model *)

(* What the two clocks read at the model's time 0, a whole millisecond     *)
(* after boot: at boot; 20 ms before the microsecond counter's low 32 bits *)
(* wrap (4294947 ms after boot, time_us_32() = 2^32 - 20296); 22 ms before *)
(* the 32-bit millisecond count wraps (2^32 - 22 ms after boot, where      *)
(* time_us_32() = 2^32 - 22000).                                           *)
Epochs == {[ms |-> 0, us |-> 0],
           [ms |-> 4294947, us |-> -20296],
           [ms |-> -22, us |-> -22000]}

MaxCalls == 4

Pins == {15, 16}
\* the pin the sensor is wired to: the lower of the two
SensorPin == CHOOSE p \in Pins : \A q \in Pins : p <= q

\* The instants (ms since boot) at which the application makes a driver call.
CallTimesMs == {0, 1000, 2022}

----------------------------------------------------------------------------
(* C integer arithmetic *)

RECURSIVE BitAnd(_, _)
BitAnd(a, b) ==
    IF a = 0 \/ b = 0 THEN 0
    ELSE (a % 2) * (b % 2) + 2 * BitAnd(a \div 2, b \div 2)

RECURSIVE BitOr(_, _)
BitOr(a, b) ==
    IF a = 0 THEN b
    ELSE IF b = 0 THEN a
    ELSE (IF a % 2 = 1 \/ b % 2 = 1 THEN 1 ELSE 0) + 2 * BitOr(a \div 2, b \div 2)

Shl(a, n) == a * 2^n

(* A uint32_t value v is held as the int with the same 32-bit pattern: v    *)
(* itself below 2^31, v - 2^32 from there on, so that 2^32 - 1 is -1.      *)
(* Sums and differences of patterns are those of the values modulo 2^32.   *)

\* a - b in uint32_t
SubU32(a, b) == a - b

\* a < c and a > c as unsigned comparisons against a constant 0 <= c < 2^31
LtU32(a, c) == a >= 0 /\ a < c

GtU32(a, c) == a < 0 \/ a > c

\* conversion of an int to uint8_t
ToU8(x) == x % 256

----------------------------------------------------------------------------
(* The platform's clocks and pins *)

\* time_us_32(): the low 32 bits of the microsecond counter
TimeUs32 == epoch.us + now

\* to_ms_since_boot(get_absolute_time()): milliseconds since boot, as uint32_t
MsSinceBoot == epoch.ms + (now \div 1000)

\* gpio_get(pin): an output pin reads back what it drives; the sensor's wire is
\* attached to SensorPin; any other input is held high by its pull-up.
GpioGet(pin) ==
    IF gpio_dir[pin] = "out" THEN gpio_out[pin]
    ELSE IF pin = SensorPin THEN line
    ELSE 1

----------------------------------------------------------------------------
(* The sensor.  After the host releases the wire the sensor answers with   *)
(* 83 edges the read consumes: low, high (the acknowledgement), then for   *)
(* each bit a low phase and a high pulse whose length carries the bit,     *)
(* ended by a falling edge; edge 84 releases the wire.                     *)

SensorTiming == [resp |-> 30, ack |-> 80, low |-> 50]

\* What a sensor transmits: the frame and the lengths of its 0 and 1 pulses.
Plans == <<
    [frame |-> <<1, 244, 0, 200, 189>>,     t0 |-> 26, t1 |-> 70],  \* 50.0 %, 20.0 C
    [frame |-> <<1, 244, 128, 200, 61>>,    t0 |-> 49, t1 |-> 51],  \* 50.0 %, -20.0 C
    [frame |-> <<1, 244, 0, 200, 188>>,     t0 |-> 50, t1 |-> 51],  \* checksum off by one
    [frame |-> <<5, 220, 3, 132, 0>>,       t0 |-> 26, t1 |-> 70],  \* 150.0 %, 90.0 C, bad checksum
    [frame |-> <<5, 220, 0, 200, 169>>,     t0 |-> 26, t1 |-> 70]   \* 150.0 %, 20.0 C
>>

LastEdge == 2 * NUM_BITS + 4

\* bit j (0 = first transmitted) of a frame
FrameBit(frame, j) == (frame[(j \div 8) + 1] \div 2^(7 - (j % 8))) % 2

\* The length of the high pulse that carries bit j of plan p.
PulseOf(p, j) == IF FrameBit(Plans[p].frame, j) = 1 THEN Plans[p].t1 ELSE Plans[p].t0

\* How long the sensor holds the level it took with edge k.
HoldAfter(p, k) ==
    IF k <= 2 THEN SensorTiming.ack
    ELSE IF k % 2 = 1 THEN SensorTiming.low
    ELSE PulseOf(p, (k - 4) \div 2)

SensorIdle == [plan |-> 0, k |-> 0, at |-> 0, alive |-> FALSE]

----------------------------------------------------------------------------
(* Floats.  A value n * 0.1 is kept as its sign and its magnitude in       *)
(* tenths: the sign-magnitude form of a float, so that -0.0 exists.  The   *)
(* comparisons of dht22_convert_data against 0.0, 100.0, -40.0 and 80.0    *)
(* agree with those of the tenths for every raw value.                     *)

Unset == [neg |-> FALSE, tenths |-> -1]

FromTenths(n) == [neg |-> FALSE, tenths |-> n]

Negate(f) == [neg |-> ~f.neg, tenths |-> f.tenths]

TenthsOf(f) == IF f.neg THEN 0 - f.tenths ELSE f.tenths

----------------------------------------------------------------------------
(* hx711.h: the weight values.  A float is kept as the exact fraction      *)
(* num / den in lowest terms with den > 0.                                 *)

RECURSIVE Gcd(_, _)
Gcd(a, b) == IF b = 0 THEN a ELSE Gcd(b, a % b)

Abs(x) == IF x < 0 THEN 0 - x ELSE x

Fraction(n, d) ==
    LET g == Gcd(Abs(n), Abs(d))
        sgn == IF d < 0 THEN -1 ELSE 1
    IN  [num |-> sgn * (n \div g), den |-> sgn * (d \div g)]

Rat(n) == [num |-> n, den |-> 1]

\* a / b for b # 0
RatDiv(a, b) == Fraction(a.num * b.den, a.den * b.num)

NoHxCall == [op |-> "none", ok |-> TRUE, reading |-> 0, value |-> Rat(0)]

----------------------------------------------------------------------------
(* dht22.c: the pure functions *)

ZeroData == [k \in 0..4 |-> 0]

\* data[i / 8] |= (1 << (7 - (i % 8)))
SetBit(d, n) == [d EXCEPT ![n \div 8] = BitOr(d[n \div 8], Shl(1, 7 - (n % 8)))]

\* the comparison with >= in place of >
IsOne_AtLeast(len) == len < 0 \/ len >= DHT22_BIT_THRESHOLD

\* pulse_length > DHT22_BIT_THRESHOLD
IsOne(len) == GtU32(len, DHT22_BIT_THRESHOLD)

\* the checksum kept as an int, not truncated to uint8_t
dht22_verify_checksum_Untruncated(d) ==
    LET checksum == d[0] + d[1] + d[2] + d[3]
    IN  IF checksum # d[4] THEN DHT22_ERROR_CHECKSUM ELSE DHT22_OK

dht22_verify_checksum(d) ==
    LET checksum == ToU8(d[0] + d[1] + d[2] + d[3])
    IN  IF checksum # d[4] THEN DHT22_ERROR_CHECKSUM ELSE DHT22_OK

ConvertHumidity(d) == FromTenths(BitOr(Shl(d[0], 8), d[1]))

\* the temperature with the sign bit left in the magnitude
ConvertTemperature_Unmasked(d) ==
    LET t == FromTenths(BitOr(Shl(d[2], 8), d[3]))
    IN  IF BitAnd(d[2], 128) # 0 THEN Negate(t) ELSE t

ConvertTemperature(d) ==
    LET t == FromTenths(BitOr(Shl(BitAnd(d[2], 127), 8), d[3]))
    IN  IF BitAnd(d[2], 128) # 0 THEN Negate(t) ELSE t

\* the range check with the limits themselves rejected
OutOfRange_Exclusive(t, h) ==
    \/ TenthsOf(h) <= 0
    \/ TenthsOf(h) >= 1000
    \/ TenthsOf(t) <= -400
    \/ TenthsOf(t) >= 800

\* the range check of dht22_convert_data
OutOfRange(t, h) ==
    \/ TenthsOf(h) < 0
    \/ TenthsOf(h) > 1000
    \/ TenthsOf(t) < -400
    \/ TenthsOf(t) > 800

dht22_convert_data(d) ==
    LET h == ConvertHumidity(d)
        t == ConvertTemperature(d)
    IN  [temperature |-> t, humidity |-> h,
         ret |-> IF OutOfRange(t, h) THEN DHT22_ERROR_INVALID_DATA ELSE DHT22_OK]

----------------------------------------------------------------------------
(* The state after program start: static dht22_state = {0, 0, false} *)

NoWait == [pc |-> "none", state |-> 0, timeout_us |-> 0, start |-> 0, ret |-> 0]

NoReal == [wait |-> 0, pulse |-> 0, stamp |-> 0]

NoPrior == [read |-> FALSE, ret |-> 0, stamped |-> FALSE]

NoEntry == [state |-> [last_read_time_ms |-> 0, pin |-> 0, initialized |-> FALSE],
            dir |-> [p \in Pins |-> "in"], out |-> [p \in Pins |-> 0], now |-> 0]

Locals0 ==
    /\ result = DHT22_OK
    /\ data = ZeroData
    /\ i = 0
    /\ current_time = 0
    /\ pulse_start = 0
    /\ pulse_length = 0
    /\ w = NoWait

\* float scale_factor: a global without an initialiser is zero
HxInit0 ==
    /\ scale_factor = Rat(0)
    /\ hx_cal = [known_weight_reading |-> 0, actual_weight |-> Rat(0)]
    /\ hx_ret = NoHxCall

Init ==
    /\ dht22_state = [last_read_time_ms |-> 0, pin |-> 0, initialized |-> FALSE]
    /\ epoch \in Epochs
    /\ now = 0
    /\ gpio_dir = [p \in Pins |-> "in"]
    /\ gpio_out = [p \in Pins |-> 0]
    /\ gpio_pull = [p \in Pins |-> FALSE]
    /\ line = 1
    /\ sensor = SensorIdle
    /\ pc = "idle"
    /\ op = "none"
    /\ arg_pin = 0
    /\ Locals0
    /\ temperature = Unset
    /\ humidity = Unset
    /\ entry = NoEntry
    /\ hwUsed = {}
    /\ trace = <<>>
    /\ calls = 0
    /\ prior = NoPrior
    /\ waits = 0
    /\ real = NoReal
    /\ HxInit0

Snapshot == [state |-> dht22_state, dir |-> gpio_dir, out |-> gpio_out, now |-> now]

----------------------------------------------------------------------------
(* The application: it calls the driver, and lets time pass between calls *)

CallInit(pin) ==
    /\ pc = "idle"
    /\ calls < MaxCalls
    /\ pc' = "init"
    /\ op' = "init"
    /\ arg_pin' = pin
    /\ calls' = calls + 1
    /\ entry' = Snapshot
    /\ hwUsed' = {}
    /\ trace' = <<>>
    /\ UNCHANGED <<dht22_state, now, gpio_dir, gpio_out, gpio_pull, line, sensor,
                   result, data, i, current_time, pulse_start, pulse_length, w,
                   temperature, humidity>>
    /\ UNCHANGED prior
    /\ waits' = 0
    /\ UNCHANGED <<epoch, real, hxVars>>

\* dht22_read(&temperature, &humidity): the frame buffer starts as zeros
\* (uint8_t data[5] = {0}); the caller's outputs hold no reading yet.
CallRead ==
    /\ pc = "idle"
    /\ calls < MaxCalls
    /\ pc' = "read"
    /\ op' = "read"
    /\ calls' = calls + 1
    /\ entry' = Snapshot
    /\ hwUsed' = {}
    /\ trace' = <<>>
    /\ data' = ZeroData
    /\ temperature' = Unset
    /\ humidity' = Unset
    /\ UNCHANGED <<dht22_state, now, gpio_dir, gpio_out, gpio_pull, line, sensor,
                   arg_pin, result, i, current_time, pulse_start, pulse_length, w>>
    /\ UNCHANGED prior
    /\ waits' = 0
    /\ UNCHANGED <<epoch, real, hxVars>>

\* The call returns to the application.
Return ==
    /\ pc = "ret"
    /\ pc' = "app"
    /\ op' = "none"
    /\ result' = DHT22_OK
    /\ data' = ZeroData
    /\ i' = 0
    /\ current_time' = 0
    /\ pulse_start' = 0
    /\ pulse_length' = 0
    /\ w' = NoWait
    /\ hwUsed' = {}
    /\ trace' = <<>>
    /\ entry' = NoEntry
    /\ UNCHANGED <<dht22_state, now, gpio_dir, gpio_out, gpio_pull, line, sensor,
                   arg_pin, temperature, humidity, calls>>
    /\ prior' = IF op = "read"
                THEN [read |-> TRUE, ret |-> result, stamped |-> prior.stamped]
                ELSE prior
    /\ waits' = 0
    /\ real' = [real EXCEPT !.wait = 0, !.pulse = 0]
    /\ UNCHANGED <<epoch, hxVars>>

\* The application is busy elsewhere until its next call instant; a sensor
\* left in mid-transmission has given up the wire by then.
AppDelay(t) ==
    /\ pc = "app"
    /\ t * 1000 >= now
    /\ now' = t * 1000
    /\ pc' = "idle"
    /\ sensor' = SensorIdle
    /\ line' = 1
    /\ UNCHANGED <<dht22_state, gpio_dir, gpio_out, gpio_pull, op, arg_pin, result,
                   data, i, current_time, pulse_start, pulse_length, w, temperature,
                   humidity, entry, hwUsed, trace, calls>>
    /\ UNCHANGED prior
    /\ UNCHANGED restVars

----------------------------------------------------------------------------
(* dht22_init *)

\* dht22_init without the clearing of the timestamp
dht22_init_KeepsStamp ==
    /\ pc = "init"
    /\ gpio_dir' = [gpio_dir EXCEPT ![arg_pin] = "in"]
    /\ gpio_out' = [gpio_out EXCEPT ![arg_pin] = 0]
    /\ gpio_pull' = [gpio_pull EXCEPT ![arg_pin] = TRUE]
    /\ hwUsed' = hwUsed \cup {"gpio_init", "gpio_set_pulls"}
    /\ dht22_state' = [dht22_state EXCEPT !.pin = arg_pin, !.initialized = TRUE]
    /\ result' = DHT22_OK
    /\ pc' = "ret"
    /\ UNCHANGED <<now, line, sensor, op, arg_pin, data, i, current_time, pulse_start,
                   pulse_length, w, temperature, humidity, entry, trace, calls>>
    /\ prior' = NoPrior
    /\ UNCHANGED restVars

\* gpio_init(pin) makes the pin an input with a cleared output latch;
\* gpio_set_pulls(pin, true, false) enables its pull-up.
dht22_init ==
    /\ pc = "init"
    /\ gpio_dir' = [gpio_dir EXCEPT ![arg_pin] = "in"]
    /\ gpio_out' = [gpio_out EXCEPT ![arg_pin] = 0]
    /\ gpio_pull' = [gpio_pull EXCEPT ![arg_pin] = TRUE]
    /\ hwUsed' = hwUsed \cup {"gpio_init", "gpio_set_pulls"}
    /\ dht22_state' = [last_read_time_ms |-> 0, pin |-> arg_pin, initialized |-> TRUE]
    /\ result' = DHT22_OK
    /\ pc' = "ret"
    /\ UNCHANGED <<now, line, sensor, op, arg_pin, data, i, current_time, pulse_start,
                   pulse_length, w, temperature, humidity, entry, trace, calls>>
    /\ prior' = NoPrior
    /\ real' = NoReal
    /\ UNCHANGED <<epoch, waits, hxVars>>

----------------------------------------------------------------------------
(* dht22_read *)

Did(kinds) == hwUsed' = hwUsed \cup kinds

Logged(name, arg) == trace' = Append(trace, [op |-> name, arg |-> arg, at |-> now])

\* dht22_read without its check of the initialized flag
ReadCheckInitialized_Unchecked ==
    /\ pc = "read"
    /\ result' = result
    /\ pc' = "rate"
    /\ UNCHANGED <<dht22_state, now, gpio_dir, gpio_out, gpio_pull, line, sensor, op,
                   arg_pin, data, i, current_time, pulse_start, pulse_length, w,
                   temperature, humidity, entry, hwUsed, trace, calls>>
    /\ UNCHANGED prior
    /\ UNCHANGED restVars

\* if (!dht22_state.initialized) return DHT22_ERROR_NOT_INITIALIZED;
ReadCheckInitialized ==
    /\ pc = "read"
    /\ IF ~dht22_state.initialized
       THEN /\ result' = DHT22_ERROR_NOT_INITIALIZED
            /\ pc' = "ret"
       ELSE /\ result' = result
            /\ pc' = "rate"
    /\ UNCHANGED <<dht22_state, now, gpio_dir, gpio_out, gpio_pull, line, sensor, op,
                   arg_pin, data, i, current_time, pulse_start, pulse_length, w,
                   temperature, humidity, entry, hwUsed, trace, calls>>
    /\ UNCHANGED prior
    /\ UNCHANGED restVars

\* the rate limit without the test of the timestamp against 0
RateLimitSleep_NoSentinel(cur, last) ==
    IF LtU32(SubU32(cur, last), DHT22_MIN_INTERVAL_MS)
    THEN SubU32(DHT22_MIN_INTERVAL_MS, SubU32(cur, last))
    ELSE 0

\* The milliseconds dht22_read sleeps before the start signal (0: no sleep).
RateLimitSleep(cur, last) ==
    IF LtU32(SubU32(cur, last), DHT22_MIN_INTERVAL_MS) /\ last # 0
    THEN SubU32(DHT22_MIN_INTERVAL_MS, SubU32(cur, last))
    ELSE 0

ReadRateLimit ==
    /\ pc = "rate"
    /\ current_time' = MsSinceBoot
    /\ LET ms == RateLimitSleep(MsSinceBoot, dht22_state.last_read_time_ms)
       IN  IF ms # 0
           THEN /\ now' = now + 1000 * ms
                /\ Did({"to_ms_since_boot", "sleep_ms"})
                /\ Logged("sleep_ms", ms)
           ELSE /\ now' = now
                /\ Did({"to_ms_since_boot"})
                /\ trace' = trace
    /\ pc' = "ss_dir_out"
    /\ UNCHANGED <<dht22_state, gpio_dir, gpio_out, gpio_pull, line, sensor, op,
                   arg_pin, result, data, i, pulse_start, pulse_length, w,
                   temperature, humidity, entry, calls>>
    /\ UNCHANGED prior
    /\ UNCHANGED restVars

(* dht22_send_start_signal *)

StartSetOutput ==
    /\ pc = "ss_dir_out"
    /\ gpio_dir' = [gpio_dir EXCEPT ![dht22_state.pin] = "out"]
    /\ Did({"gpio_set_dir"})
    /\ Logged("gpio_set_dir", 1)
    /\ pc' = "ss_put_low"
    /\ UNCHANGED <<dht22_state, now, gpio_out, gpio_pull, line, sensor, op, arg_pin,
                   result, data, i, current_time, pulse_start, pulse_length, w,
                   temperature, humidity, entry, calls>>
    /\ UNCHANGED prior
    /\ UNCHANGED restVars

StartPutLow ==
    /\ pc = "ss_put_low"
    /\ gpio_out' = [gpio_out EXCEPT ![dht22_state.pin] = 0]
    /\ Did({"gpio_put"})
    /\ Logged("gpio_put", 0)
    /\ pc' = "ss_sleep_low"
    /\ UNCHANGED <<dht22_state, now, gpio_dir, gpio_pull, line, sensor, op, arg_pin,
                   result, data, i, current_time, pulse_start, pulse_length, w,
                   temperature, humidity, entry, calls>>
    /\ UNCHANGED prior
    /\ UNCHANGED restVars

StartSleepLow ==
    /\ pc = "ss_sleep_low"
    /\ now' = now + DHT22_START_SIGNAL_DELAY
    /\ Did({"sleep_us"})
    /\ Logged("sleep_us", DHT22_START_SIGNAL_DELAY)
    /\ pc' = "ss_put_high"
    /\ UNCHANGED <<dht22_state, gpio_dir, gpio_out, gpio_pull, line, sensor, op,
                   arg_pin, result, data, i, current_time, pulse_start, pulse_length,
                   w, temperature, humidity, entry, calls>>
    /\ UNCHANGED prior
    /\ UNCHANGED restVars

StartPutHigh ==
    /\ pc = "ss_put_high"
    /\ gpio_out' = [gpio_out EXCEPT ![dht22_state.pin] = 1]
    /\ Did({"gpio_put"})
    /\ Logged("gpio_put", 1)
    /\ pc' = "ss_sleep_high"
    /\ UNCHANGED <<dht22_state, now, gpio_dir, gpio_pull, line, sensor, op, arg_pin,
                   result, data, i, current_time, pulse_start, pulse_length, w,
                   temperature, humidity, entry, calls>>
    /\ UNCHANGED prior
    /\ UNCHANGED restVars

StartSleepHigh ==
    /\ pc = "ss_sleep_high"
    /\ now' = now + START_HIGH_US
    /\ Did({"sleep_us"})
    /\ Logged("sleep_us", START_HIGH_US)
    /\ pc' = "ss_dir_in"
    /\ UNCHANGED <<dht22_state, gpio_dir, gpio_out, gpio_pull, line, sensor, op,
                   arg_pin, result, data, i, current_time, pulse_start, pulse_length,
                   w, temperature, humidity, entry, calls>>
    /\ UNCHANGED prior
    /\ UNCHANGED restVars

\* a start signal that leaves the pin an output: the sensor still answers,
\* and the host reads back its own latch
StartSetInput_StaysOutput ==
    /\ pc = "ss_dir_in"
    /\ gpio_dir' = gpio_dir
    /\ Did({"gpio_set_dir"})
    /\ Logged("gpio_set_dir", 0)
    /\ IF dht22_state.pin = SensorPin
       THEN \/ \E p \in 1..Len(Plans) :
                 /\ sensor' = [plan |-> p, k |-> 0, at |-> now + SensorTiming.resp,
                               alive |-> TRUE]
                 /\ line' = 1
            \/ /\ sensor' = SensorIdle
               /\ line' = 0
       ELSE UNCHANGED <<sensor, line>>
    /\ pc' = "resp1"
    /\ UNCHANGED <<dht22_state, now, gpio_out, gpio_pull, op, arg_pin, result, data,
                   i, current_time, pulse_start, pulse_length, w, temperature,
                   humidity, entry, calls>>
    /\ UNCHANGED prior
    /\ UNCHANGED restVars

\* gpio_set_dir(pin, GPIO_IN) releases the wire.  A sensor attached to the pin
\* has seen the start signal and begins one of its transmissions, or it holds
\* the wire low for good.
StartSetInput ==
    /\ pc = "ss_dir_in"
    /\ gpio_dir' = [gpio_dir EXCEPT ![dht22_state.pin] = "in"]
    /\ Did({"gpio_set_dir"})
    /\ Logged("gpio_set_dir", 0)
    /\ IF dht22_state.pin = SensorPin
       THEN \/ \E p \in 1..Len(Plans) :
                 /\ sensor' = [plan |-> p, k |-> 0, at |-> now + SensorTiming.resp,
                               alive |-> TRUE]
                 /\ line' = 1
            \/ /\ sensor' = SensorIdle
               /\ line' = 0
       ELSE UNCHANGED <<sensor, line>>
    /\ pc' = "resp1"
    /\ UNCHANGED <<dht22_state, now, gpio_out, gpio_pull, op, arg_pin, result, data,
                   i, current_time, pulse_start, pulse_length, w, temperature,
                   humidity, entry, calls>>
    /\ UNCHANGED prior
    /\ UNCHANGED restVars

----------------------------------------------------------------------------
(* wait_for_pin_state(pin, state, timeout_us), called from five places of  *)
(* the read: the three edges of the acknowledgement and the rising and     *)
(* falling edge of each bit.                                               *)

WaitLabels == {"resp1", "resp2", "resp3", "bit_rise", "bit_fall"}

\* the level each call waits for
WaitLevel(label) == IF label \in {"resp2", "bit_rise"} THEN 1 ELSE 0

\* an acknowledgement of two edge waits only: the capture starts after the
\* wait for high
AfterWait_TwoEdges(label) ==
    CASE label = "resp1" -> "resp2"
      [] label = "resp2" -> "bit_rise"
      [] label = "resp3" -> "bit_rise"
      [] label = "bit_rise" -> "bit_mark"
      [] label = "bit_fall" -> "bit_store"

\* where the read continues when the wait succeeds
AfterWait(label) ==
    CASE label = "resp1" -> "resp2"
      [] label = "resp2" -> "resp3"
      [] label = "resp3" -> "bit_rise"
      [] label = "bit_rise" -> "bit_mark"
      [] label = "bit_fall" -> "bit_store"

WaitCall ==
    /\ pc \in WaitLabels
    /\ w.pc = "none"
    /\ w' = [pc |-> "start", state |-> WaitLevel(pc),
             timeout_us |-> DHT22_RESPONSE_WAIT_TIMEOUT, start |-> 0, ret |-> 0]
    /\ UNCHANGED <<dht22_state, now, gpio_dir, gpio_out, gpio_pull, line, sensor, pc,
                   op, arg_pin, result, data, i, current_time, pulse_start,
                   pulse_length, temperature, humidity, entry, hwUsed, trace, calls>>
    /\ UNCHANGED prior
    /\ waits' = waits + 1
    /\ UNCHANGED <<epoch, real, hxVars>>

\* uint32_t start = time_us_32();
WaitStart ==
    /\ w.pc = "start"
    /\ w' = [w EXCEPT !.pc = "poll", !.start = TimeUs32]
    /\ Did({"time_us_32"})
    /\ UNCHANGED <<dht22_state, now, gpio_dir, gpio_out, gpio_pull, line, sensor, pc,
                   op, arg_pin, result, data, i, current_time, pulse_start,
                   pulse_length, temperature, humidity, entry, trace, calls>>
    /\ UNCHANGED prior
    /\ real' = [real EXCEPT !.wait = now]
    /\ UNCHANGED <<epoch, waits, hxVars>>

\* while (gpio_get(pin) != state)
WaitPoll ==
    /\ w.pc = "poll"
    /\ Did({"gpio_get"})
    /\ IF GpioGet(dht22_state.pin) # w.state
       THEN w' = [w EXCEPT !.pc = "time"]
       ELSE w' = [w EXCEPT !.pc = "done", !.ret = 0]
    /\ UNCHANGED <<dht22_state, now, gpio_dir, gpio_out, gpio_pull, line, sensor, pc,
                   op, arg_pin, result, data, i, current_time, pulse_start,
                   pulse_length, temperature, humidity, entry, trace, calls>>
    /\ UNCHANGED prior
    /\ UNCHANGED restVars

\* the test against a deadline, time_us_32() > start + timeout_us, compared
\* as uint32_t: of two patterns of the same sign the greater int is the greater
\* value, of two of different sign the negative one is
TimedOut_Deadline(t, start, timeout_us) ==
    LET deadline == start + timeout_us
    IN  IF (t < 0) = (deadline < 0) THEN t > deadline ELSE t < 0

\* (time_us_32() - start) > timeout_us
TimedOut(t, start, timeout_us) == GtU32(SubU32(t, start), timeout_us)

\* the loop without its timeout test
WaitCheckTimeout_Never ==
    /\ w.pc = "time"
    /\ w' = [w EXCEPT !.pc = "spin"]
    /\ UNCHANGED <<dht22_state, now, gpio_dir, gpio_out, gpio_pull, line, sensor, pc,
                   op, arg_pin, result, data, i, current_time, pulse_start,
                   pulse_length, temperature, humidity, entry, hwUsed, trace, calls>>
    /\ UNCHANGED prior
    /\ UNCHANGED restVars

\* the timeout test with >= in place of >
WaitCheckTimeout_AtLeast ==
    /\ w.pc = "time"
    /\ Did({"time_us_32"})
    /\ IF ~LtU32(SubU32(TimeUs32, w.start), w.timeout_us)
       THEN w' = [w EXCEPT !.pc = "done", !.ret = -1]
       ELSE w' = [w EXCEPT !.pc = "spin"]
    /\ UNCHANGED <<dht22_state, now, gpio_dir, gpio_out, gpio_pull, line, sensor, pc,
                   op, arg_pin, result, data, i, current_time, pulse_start,
                   pulse_length, temperature, humidity, entry, trace, calls>>
    /\ UNCHANGED prior
    /\ UNCHANGED restVars

\* if ((time_us_32() - start) > timeout_us) return -1;
WaitCheckTimeout ==
    /\ w.pc = "time"
    /\ Did({"time_us_32"})
    /\ IF TimedOut(TimeUs32, w.start, w.timeout_us)
       THEN w' = [w EXCEPT !.pc = "done", !.ret = -1]
       ELSE w' = [w EXCEPT !.pc = "spin"]
    /\ UNCHANGED <<dht22_state, now, gpio_dir, gpio_out, gpio_pull, line, sensor, pc,
                   op, arg_pin, result, data, i, current_time, pulse_start,
                   pulse_length, temperature, humidity, entry, trace, calls>>
    /\ UNCHANGED prior
    /\ UNCHANGED restVars

(* The loop spins, sampling the same level and an unexpired clock, until    *)
(* the next thing happens: the sensor's next edge, or the first instant at *)
(* which the elapsed time exceeds the timeout.                             *)

Deadline == now + (w.timeout_us + 1 - SubU32(TimeUs32, w.start))

EdgeDue == sensor.alive /\ sensor.k < LastEdge /\ sensor.at <= Deadline

SpinVars == <<dht22_state, gpio_dir, gpio_out, gpio_pull, pc, op, arg_pin, result,
              data, i, current_time, pulse_start, pulse_length, temperature, humidity,
              entry, hwUsed, trace, calls>>

\* The sensor makes its next edge.
SpinEdge ==
    /\ w.pc = "spin"
    /\ EdgeDue
    /\ now' = IF sensor.at > now THEN sensor.at ELSE now
    /\ line' = 1 - line
    /\ sensor' = [sensor EXCEPT !.k = sensor.k + 1,
                                !.at = now' + HoldAfter(sensor.plan, sensor.k + 1)]
    /\ w' = [w EXCEPT !.pc = "poll"]
    /\ UNCHANGED SpinVars
    /\ UNCHANGED prior
    /\ UNCHANGED restVars

\* The sensor stops transmitting and leaves the wire as it is.
SpinStall ==
    /\ w.pc = "spin"
    /\ EdgeDue
    /\ now' = Deadline
    /\ sensor' = [sensor EXCEPT !.alive = FALSE]
    /\ w' = [w EXCEPT !.pc = "poll"]
    /\ UNCHANGED line
    /\ UNCHANGED SpinVars
    /\ UNCHANGED prior
    /\ UNCHANGED restVars

\* Nothing happens on the wire before the timeout.
SpinExpire ==
    /\ w.pc = "spin"
    /\ ~EdgeDue
    /\ now' = Deadline
    /\ w' = [w EXCEPT !.pc = "poll"]
    /\ UNCHANGED <<line, sensor>>
    /\ UNCHANGED SpinVars
    /\ UNCHANGED prior
    /\ UNCHANGED restVars

\* a read that gives the driver up when an edge wait times out
WaitReturn_GivesUp ==
    /\ pc \in WaitLabels
    /\ w.pc = "done"
    /\ w' = NoWait
    /\ IF w.ret # 0
       THEN /\ result' = DHT22_ERROR_TIMEOUT
            /\ dht22_state' = [dht22_state EXCEPT !.initialized = FALSE]
            /\ pc' = "ret"
       ELSE /\ result' = result
            /\ dht22_state' = dht22_state
            /\ pc' = AfterWait(pc)
    /\ UNCHANGED <<now, gpio_dir, gpio_out, gpio_pull, line, sensor, op,
                   arg_pin, data, i, current_time, pulse_start, pulse_length,
                   temperature, humidity, entry, hwUsed, trace, calls>>
    /\ UNCHANGED prior
    /\ UNCHANGED restVars

\* if (wait_for_pin_state(...) != 0) return DHT22_ERROR_TIMEOUT; and, for the
\* acknowledgement, dht22_read's  if (result != DHT22_OK) return result;
WaitReturn ==
    /\ pc \in WaitLabels
    /\ w.pc = "done"
    /\ w' = NoWait
    /\ IF w.ret # 0
       THEN /\ result' = DHT22_ERROR_TIMEOUT
            /\ pc' = "ret"
       ELSE /\ result' = result
            /\ pc' = AfterWait(pc)
    /\ UNCHANGED <<dht22_state, now, gpio_dir, gpio_out, gpio_pull, line, sensor, op,
                   arg_pin, data, i, current_time, pulse_start, pulse_length,
                   temperature, humidity, entry, hwUsed, trace, calls>>
    /\ UNCHANGED prior
    /\ real' = [real EXCEPT !.wait = 0]
    /\ UNCHANGED <<epoch, waits, hxVars>>

----------------------------------------------------------------------------
(* dht22_read_data: the body of  for (int i = 0; i < 40; i++)  between and  *)
(* after the two waits                                                     *)

\* uint32_t pulse_start = time_us_32();
BitPulseStart ==
    /\ pc = "bit_mark"
    /\ pulse_start' = TimeUs32
    /\ Did({"time_us_32"})
    /\ pc' = "bit_fall"
    /\ UNCHANGED <<dht22_state, now, gpio_dir, gpio_out, gpio_pull, line, sensor, op,
                   arg_pin, result, data, i, current_time, pulse_length, w,
                   temperature, humidity, entry, trace, calls>>
    /\ UNCHANGED prior
    /\ real' = [real EXCEPT !.pulse = now]
    /\ UNCHANGED <<epoch, waits, hxVars>>

\* pulse_length = time_us_32() - pulse_start; the bit is stored; i++
BitStore ==
    /\ pc = "bit_store"
    /\ pulse_length' = SubU32(TimeUs32, pulse_start)
    /\ Did({"time_us_32"})
    /\ data' = IF IsOne(pulse_length') THEN SetBit(data, i) ELSE data
    /\ i' = i + 1
    /\ pc' = IF i + 1 < NUM_BITS THEN "bit_rise" ELSE "stamp"
    /\ UNCHANGED <<dht22_state, now, gpio_dir, gpio_out, gpio_pull, line, sensor, op,
                   arg_pin, result, current_time, pulse_start, w, temperature,
                   humidity, entry, trace, calls>>
    /\ UNCHANGED prior
    /\ real' = [real EXCEPT !.pulse = 0]
    /\ UNCHANGED <<epoch, waits, hxVars>>

----------------------------------------------------------------------------
(* dht22_read after the capture *)

\* dht22_read without the update of the timestamp
ReadStamp_Skipped ==
    /\ pc = "stamp"
    /\ pc' = "verify"
    /\ UNCHANGED <<dht22_state, now, gpio_dir, gpio_out, gpio_pull, line, sensor, op,
                   arg_pin, result, data, i, current_time, pulse_start, pulse_length, w,
                   temperature, humidity, entry, hwUsed, trace, calls>>
    /\ UNCHANGED prior
    /\ UNCHANGED restVars

\* dht22_state.last_read_time_ms = to_ms_since_boot(get_absolute_time());
ReadStamp ==
    /\ pc = "stamp"
    /\ dht22_state' = [dht22_state EXCEPT !.last_read_time_ms = MsSinceBoot]
    /\ Did({"to_ms_since_boot"})
    /\ pc' = "verify"
    /\ UNCHANGED <<now, gpio_dir, gpio_out, gpio_pull, line, sensor, op, arg_pin,
                   result, data, i, current_time, pulse_start, pulse_length, w,
                   temperature, humidity, entry, trace, calls>>
    /\ prior' = [prior EXCEPT !.stamped = TRUE]
    /\ real' = [real EXCEPT !.stamp = now \div 1000]
    /\ UNCHANGED <<epoch, waits, hxVars>>

\* the checksum verified, and its result not tested before the conversion
ReadVerify_NoReturn ==
    /\ pc = "verify"
    /\ result' = dht22_verify_checksum(data)
    /\ pc' = "convert"
    /\ UNCHANGED <<dht22_state, now, gpio_dir, gpio_out, gpio_pull, line, sensor, op,
                   arg_pin, data, i, current_time, pulse_start, pulse_length, w,
                   temperature, humidity, entry, hwUsed, trace, calls>>
    /\ UNCHANGED prior
    /\ UNCHANGED restVars

\* result = dht22_verify_checksum(data); if (result != DHT22_OK) return result;
ReadVerify ==
    /\ pc = "verify"
    /\ result' = dht22_verify_checksum(data)
    /\ pc' = IF result' # DHT22_OK THEN "ret" ELSE "convert"
    /\ UNCHANGED <<dht22_state, now, gpio_dir, gpio_out, gpio_pull, line, sensor, op,
                   arg_pin, data, i, current_time, pulse_start, pulse_length, w,
                   temperature, humidity, entry, hwUsed, trace, calls>>
    /\ UNCHANGED prior
    /\ UNCHANGED restVars

\* a conversion that stores the values only when they are in range
ReadConvert_ValidOnly ==
    /\ pc = "convert"
    /\ LET c == dht22_convert_data(data)
       IN  /\ temperature' = IF c.ret = DHT22_OK THEN c.temperature ELSE temperature
           /\ humidity' = IF c.ret = DHT22_OK THEN c.humidity ELSE humidity
           /\ result' = c.ret
    /\ pc' = "ret"
    /\ UNCHANGED <<dht22_state, now, gpio_dir, gpio_out, gpio_pull, line, sensor, op,
                   arg_pin, data, i, current_time, pulse_start, pulse_length, w,
                   entry, hwUsed, trace, calls>>
    /\ UNCHANGED prior
    /\ UNCHANGED restVars

\* return dht22_convert_data(data, temperature, humidity);
ReadConvert ==
    /\ pc = "convert"
    /\ LET c == dht22_convert_data(data)
       IN  /\ temperature' = c.temperature
           /\ humidity' = c.humidity
           /\ result' = c.ret
    /\ pc' = "ret"
    /\ UNCHANGED <<dht22_state, now, gpio_dir, gpio_out, gpio_pull, line, sensor, op,
                   arg_pin, data, i, current_time, pulse_start, pulse_length, w,
                   entry, hwUsed, trace, calls>>
    /\ UNCHANGED prior
    /\ UNCHANGED restVars

----------------------------------------------------------------------------

dht22_send_start_signal ==
    \/ StartSetOutput
    \/ StartPutLow
    \/ StartSleepLow
    \/ StartPutHigh
    \/ StartSleepHigh
    \/ StartSetInput

wait_for_pin_state ==
    \/ WaitCall
    \/ WaitStart
    \/ WaitPoll
    \/ WaitCheckTimeout
    \/ WaitReturn

Spin ==
    \/ SpinEdge
    \/ SpinStall
    \/ SpinExpire

dht22_read_data ==
    \/ BitPulseStart
    \/ BitStore

dht22_read ==
    \/ ReadCheckInitialized
    \/ ReadRateLimit
    \/ dht22_send_start_signal
    \/ wait_for_pin_state
    \/ dht22_read_data
    \/ ReadStamp
    \/ ReadVerify
    \/ ReadConvert

Next ==
    \/ \E pin \in Pins : CallInit(pin)
    \/ CallRead
    \/ dht22_init
    \/ dht22_read
    \/ Spin
    \/ Return
    \/ \E t \in CallTimesMs : AppDelay(t)

Spec == Init /\ [][Next]_vars

----------------------------------------------------------------------------
(* The climate decoder after the capture, for any captured frame: the      *)
(* read has taken 40 bits from the sensor and goes on to stamp, verify and *)
(* convert them.                                                           *)

Byte0 == {0, 1, 3, 5, 255}
Byte1 == {0, 220, 232, 233, 244, 255}
Byte2 == {0, 3, 127, 128, 129, 255}
Byte3 == {0, 32, 33, 132, 144, 145, 200, 255}

\* the checksum bytes tried with bytes 0 to 3: the right one, its two
\* neighbours, and 0
Byte4(d0, d1, d2, d3) ==
    LET sum == (d0 + d1 + d2 + d3) % 256
    IN  {sum, (sum + 1) % 256, (sum + 255) % 256, 0}

FrameSpace ==
    UNION {UNION {{(0 :> d0) @@ (1 :> d1) @@ (2 :> d2) @@ (3 :> d3) @@ (4 :> d4) :
                       d4 \in Byte4(d0, d1, d2, d3)} :
                  d2 \in Byte2, d3 \in Byte3} :
           d0 \in Byte0, d1 \in Byte1}

\* the instant (us) at which the captures of this specification end
CaptureEnd == 21920

\* what a read that began at time 0 has written to the pin by then
StartSignalTrace == <<
    [op |-> "gpio_set_dir", arg |-> 1, at |-> 0],
    [op |-> "gpio_put", arg |-> 0, at |-> 0],
    [op |-> "sleep_us", arg |-> DHT22_START_SIGNAL_DELAY, at |-> 0],
    [op |-> "gpio_put", arg |-> 1, at |-> DHT22_START_SIGNAL_DELAY],
    [op |-> "sleep_us", arg |-> START_HIGH_US, at |-> DHT22_START_SIGNAL_DELAY],
    [op |-> "gpio_set_dir", arg |-> 0, at |-> DHT22_START_SIGNAL_DELAY + START_HIGH_US] >>

InitFrame ==
    /\ dht22_state = [last_read_time_ms |-> 0, pin |-> SensorPin, initialized |-> TRUE]
    /\ epoch \in Epochs
    /\ now = CaptureEnd
    /\ gpio_dir = [p \in Pins |-> "in"]
    /\ gpio_out = [p \in Pins |-> IF p = SensorPin THEN 1 ELSE 0]
    /\ gpio_pull = [p \in Pins |-> p = SensorPin]
    /\ line = 0
    /\ sensor = [plan |-> 0, k |-> LastEdge - 1, at |-> 0, alive |-> FALSE]
    /\ pc = "stamp"
    /\ op = "read"
    /\ arg_pin = SensorPin
    /\ result = DHT22_OK
    /\ data \in FrameSpace
    /\ i = NUM_BITS
    /\ current_time = epoch.ms
    /\ pulse_start = 0
    /\ pulse_length = 0
    /\ w = NoWait
    /\ temperature = Unset
    /\ humidity = Unset
    /\ entry = [state |-> dht22_state, dir |-> gpio_dir,
                out |-> [p \in Pins |-> 0], now |-> 0]
    /\ hwUsed = {"to_ms_since_boot", "gpio_set_dir", "gpio_put", "sleep_us",
                 "time_us_32", "gpio_get"}
    /\ trace = StartSignalTrace
    /\ calls = 2
    /\ prior = NoPrior
    /\ waits = 3 + 2 * NUM_BITS
    /\ real = NoReal
    /\ HxInit0

NextFrame ==
    \/ ReadStamp
    \/ ReadVerify
    \/ ReadConvert
    \/ Return

SpecFrame == InitFrame /\ [][NextFrame]_vars

----------------------------------------------------------------------------
(* wait_for_pin_state on its own: one call, made at time 0 by a read whose   *)
(* start signal is over, for either target level, for several timeouts and *)
(* for a wire that is held, or on which the sensor is about to make edges. *)

WaitTimeouts == {0, 1, DHT22_RESPONSE_WAIT_TIMEOUT}

\* when the sensor's next edge comes (us after the call)
WaitEdgeTimes == {0, 1, 2, 200, 201, 202}

InitWait ==
    /\ \E pin \in Pins :
          /\ dht22_state = [last_read_time_ms |-> 0, pin |-> pin, initialized |-> TRUE]
          /\ arg_pin = pin
          /\ gpio_out = [p \in Pins |-> IF p = pin THEN 1 ELSE 0]
          /\ gpio_pull = [p \in Pins |-> p = pin]
    /\ epoch \in Epochs
    /\ now = 0
    /\ gpio_dir = [p \in Pins |-> "in"]
    /\ \/ /\ sensor = SensorIdle
          /\ line \in {0, 1}
       \/ \E p \in 1..Len(Plans), k \in 0..3, at \in WaitEdgeTimes :
             /\ sensor = [plan |-> p, k |-> k, at |-> at, alive |-> TRUE]
             /\ line = (k + 1) % 2
    /\ pc = "resp1"
    /\ op = "read"
    /\ result = DHT22_OK
    /\ data = ZeroData
    /\ i = 0
    /\ current_time = epoch.ms
    /\ pulse_start = 0
    /\ pulse_length = 0
    /\ \E state \in {0, 1}, timeout_us \in WaitTimeouts :
          w = [pc |-> "start", state |-> state, timeout_us |-> timeout_us,
               start |-> 0, ret |-> 0]
    /\ temperature = Unset
    /\ humidity = Unset
    /\ entry = Snapshot
    /\ hwUsed = {}
    /\ trace = <<>>
    /\ calls = 2
    /\ prior = NoPrior
    /\ waits = 1
    /\ real = NoReal
    /\ HxInit0

NextWait ==
    \/ WaitStart
    \/ WaitPoll
    \/ WaitCheckTimeout
    \/ Spin
    \/ WaitReturn

SpecWait == InitWait /\ [][NextWait]_vars

----------------------------------------------------------------------------
(* One dht22_read from its call to its return.  The call is made one second *)
(* after the model's time 0: before any dht22_init; or after dht22_init of  *)
(* either pin; or after a read of the sensor's pin that began at time 0 and *)
(* completed its capture 22 ms later.  The processor keeps executing the    *)
(* call, and the clock keeps advancing while the wait loop spins.           *)

LiveCallAt == 1000000

LivePriorCaptureMs == 22

InitLive ==
    /\ epoch \in Epochs
    /\ now = LiveCallAt
    /\ gpio_dir = [p \in Pins |-> "in"]
    /\ \/ /\ dht22_state = [last_read_time_ms |-> 0, pin |-> 0, initialized |-> FALSE]
          /\ gpio_out = [p \in Pins |-> 0]
          /\ gpio_pull = [p \in Pins |-> FALSE]
          /\ arg_pin = 0
          /\ prior = NoPrior
          /\ real = NoReal
       \/ \E pin \in Pins :
             /\ dht22_state = [last_read_time_ms |-> 0, pin |-> pin, initialized |-> TRUE]
             /\ gpio_out = [p \in Pins |-> 0]
             /\ gpio_pull = [p \in Pins |-> p = pin]
             /\ arg_pin = pin
             /\ prior = NoPrior
             /\ real = NoReal
       \/ /\ dht22_state = [last_read_time_ms |-> epoch.ms + LivePriorCaptureMs,
                             pin |-> SensorPin, initialized |-> TRUE]
          /\ gpio_out = [p \in Pins |-> IF p = SensorPin THEN 1 ELSE 0]
          /\ gpio_pull = [p \in Pins |-> p = SensorPin]
          /\ arg_pin = SensorPin
          /\ prior = [read |-> TRUE, ret |-> DHT22_OK, stamped |-> TRUE]
          /\ real = [wait |-> 0, pulse |-> 0, stamp |-> LivePriorCaptureMs]
    /\ line = 1
    /\ sensor = SensorIdle
    /\ pc = "read"
    /\ op = "read"
    /\ Locals0
    /\ temperature = Unset
    /\ humidity = Unset
    /\ entry = Snapshot
    /\ hwUsed = {}
    /\ trace = <<>>
    /\ calls = 2
    /\ waits = 0
    /\ HxInit0

NextLive ==
    \/ dht22_read
    \/ Spin
    \/ Return

SpecLive == InitLive /\ [][NextLive]_vars /\ WF_vars(dht22_read) /\ WF_vars(Spin)

----------------------------------------------------------------------------
(* hx711.h.  calibrate_hx711 and calculate_weight are declared here and    *)
(* defined in a file the repository's sources do not include.              *)

KnownReadings == {-1000, 0, 250, 1000}
ActualWeights == {Fraction(5, 1), Fraction(5, 2), Fraction(1, 4), Rat(0), Rat(-2)}
Readings == {-400, 0, 100, 400}

\* the calibration with the quotient inverted
calibrate_hx711_Inverted(known_weight_reading, actual_weight) ==
    /\ IF actual_weight.num > 0 /\ known_weight_reading # 0
       THEN /\ scale_factor' = RatDiv(actual_weight, Rat(known_weight_reading))
            /\ hx_cal' = [known_weight_reading |-> known_weight_reading,
                          actual_weight |-> actual_weight]
            /\ hx_ret' = [op |-> "calibrate_hx711", ok |-> TRUE,
                          reading |-> known_weight_reading, value |-> actual_weight]
       ELSE /\ UNCHANGED <<scale_factor, hx_cal>>
            /\ hx_ret' = [op |-> "calibrate_hx711", ok |-> FALSE,
                          reading |-> known_weight_reading, value |-> actual_weight]
    /\ UNCHANGED dhtVars

\* the calibration that refuses only an actual weight of zero
calibrate_hx711_ZeroOnly(known_weight_reading, actual_weight) ==
    /\ IF actual_weight.num # 0
       THEN /\ scale_factor' = RatDiv(Rat(known_weight_reading), actual_weight)
            /\ hx_cal' = [known_weight_reading |-> known_weight_reading,
                          actual_weight |-> actual_weight]
            /\ hx_ret' = [op |-> "calibrate_hx711", ok |-> TRUE,
                          reading |-> known_weight_reading, value |-> actual_weight]
       ELSE /\ UNCHANGED <<scale_factor, hx_cal>>
            /\ hx_ret' = [op |-> "calibrate_hx711", ok |-> FALSE,
                          reading |-> known_weight_reading, value |-> actual_weight]
    /\ UNCHANGED dhtVars

\* void calibrate_hx711(int32_t known_weight_reading, float actual_weight)
calibrate_hx711(known_weight_reading, actual_weight) ==
    /\ IF actual_weight.num > 0
       THEN /\ scale_factor' = RatDiv(Rat(known_weight_reading), actual_weight)
            /\ hx_cal' = [known_weight_reading |-> known_weight_reading,
                          actual_weight |-> actual_weight]
            /\ hx_ret' = [op |-> "calibrate_hx711", ok |-> TRUE,
                          reading |-> known_weight_reading, value |-> actual_weight]
       ELSE /\ UNCHANGED <<scale_factor, hx_cal>>
            /\ hx_ret' = [op |-> "calibrate_hx711", ok |-> FALSE,
                          reading |-> known_weight_reading, value |-> actual_weight]
    /\ UNCHANGED dhtVars

\* the conversion guarded by "a calibration was stored" in place of "the
\* scale factor is not zero": with a factor of 0 the float division gives an
\* infinity or a NaN, kept here as the fraction reading / 0
calculate_weight_CalibratedOnly(reading) ==
    /\ IF hx_cal.actual_weight.num # 0
       THEN hx_ret' = [op |-> "calculate_weight", ok |-> TRUE, reading |-> reading,
                       value |-> IF scale_factor.num # 0
                                 THEN RatDiv(Rat(reading), scale_factor)
                                 ELSE [num |-> reading, den |-> 0]]
       ELSE hx_ret' = [op |-> "calculate_weight", ok |-> FALSE, reading |-> reading,
                       value |-> Rat(0)]
    /\ UNCHANGED <<scale_factor, hx_cal>>
    /\ UNCHANGED dhtVars

\* float calculate_weight(int32_t reading)
calculate_weight(reading) ==
    /\ IF scale_factor.num # 0
       THEN hx_ret' = [op |-> "calculate_weight", ok |-> TRUE, reading |-> reading,
                       value |-> RatDiv(Rat(reading), scale_factor)]
       ELSE hx_ret' = [op |-> "calculate_weight", ok |-> FALSE, reading |-> reading,
                       value |-> Rat(0)]
    /\ UNCHANGED <<scale_factor, hx_cal>>
    /\ UNCHANGED dhtVars

InitHx == Init /\ epoch.ms = 0

NextHx ==
    \/ \E k \in KnownReadings, a \in ActualWeights : calibrate_hx711(k, a)
    \/ \E r \in Readings : calculate_weight(r)

SpecHx == InitHx /\ [][NextHx]_vars

----------------------------------------------------------------------------
(* The claims *)

ReadReturns(r) == op = "read" /\ pc = "ret" /\ result = r

\* C1: a dht22_read made while the driver is not initialised returns
\* DHT22_ERROR_NOT_INITIALIZED and touches no hardware: at every point of such a
\* call no pin, clock or sleep function has been used, no time has passed, and
\* the driver state and the pins are as the call found them.
C1_ReadBeforeInit ==
    (op = "read" /\ ~entry.state.initialized) =>
        /\ pc \in {"read", "ret"}
        /\ pc = "ret" => result = DHT22_ERROR_NOT_INITIALIZED
        /\ hwUsed = {}
        /\ trace = <<>>
        /\ now = entry.now
        /\ dht22_state = entry.state
        /\ gpio_dir = entry.dir
        /\ gpio_out = entry.out

C1_Witness ==
    /\ ReadReturns(DHT22_ERROR_NOT_INITIALIZED)
    /\ ~entry.state.initialized
    /\ hwUsed = {}

\* C2: when the previous call was a dht22_read that returned OK and stored the
\* timestamp L, a dht22_read entered at millisecond time t with t - L < 2000
\* sleeps 2000 - (t - L) ms, so that the start signal begins exactly 2000 ms after
\* L, and in no case is the pin driven low before L + 2000.
C2_SecondReadWaits ==
    (op = "read" /\ prior.read /\ prior.ret = DHT22_OK
        /\ pc \in {"ss_dir_out", "ss_put_low", "ss_sleep_low"}) =>
        LET L == dht22_state.last_read_time_ms
            t == current_time
        IN  /\ ~LtU32(SubU32(MsSinceBoot, L), 2000)
            /\ LtU32(SubU32(t, L), 2000) =>
                  /\ trace # <<>>
                  /\ trace[1].op = "sleep_ms"
                  /\ trace[1].arg = 2000 - SubU32(t, L)
                  /\ pc = "ss_dir_out" => SubU32(MsSinceBoot, L) = 2000

\* C3: the timestamp is set to the millisecond clock exactly in the reads that
\* capture all 40 bits, and before the checksum is verified: it holds the clock
\* when the read is about to verify, to convert, and when it returns OK, Checksum
\* or InvalidData; until then, and when the read returns Timeout or
\* NotInitialized, the driver state is the one the call found.
C3_StampAfterCapture ==
    op = "read" =>
        /\ pc \in {"verify", "convert"} =>
              /\ i = NUM_BITS
              /\ dht22_state.last_read_time_ms = MsSinceBoot
        /\ (pc = "ret" /\ result \in {DHT22_OK, DHT22_ERROR_CHECKSUM,
                                      DHT22_ERROR_INVALID_DATA}) =>
              /\ i = NUM_BITS
              /\ dht22_state.last_read_time_ms = MsSinceBoot
        /\ (pc = "ret" /\ result \in {DHT22_ERROR_TIMEOUT,
                                      DHT22_ERROR_NOT_INITIALIZED}) =>
              /\ i < NUM_BITS
              /\ dht22_state = entry.state
        /\ pc \notin {"verify", "convert", "ret"} => dht22_state = entry.state

C3_Witness ==
    /\ ReadReturns(DHT22_ERROR_CHECKSUM)
    /\ dht22_state.last_read_time_ms = MsSinceBoot
    /\ dht22_state.last_read_time_ms # entry.state.last_read_time_ms

\* C4: a timed-out edge wait makes the read return Timeout; a read never changes
\* the pin or the initialized flag; every read of an initialised driver, whatever
\* the earlier reads returned, issues the whole start signal and returns with the
\* driver initialised and the pin released as an input, so a retry can succeed.
C4_FailedReadLeavesDriverReady ==
    /\ [](op = "read" =>
            /\ dht22_state.pin = entry.state.pin
            /\ dht22_state.initialized = entry.state.initialized)
    /\ []((op = "read" /\ pc = "ret" /\ entry.state.initialized) =>
            /\ result # DHT22_ERROR_NOT_INITIALIZED
            /\ dht22_state.initialized
            /\ gpio_dir[dht22_state.pin] = "in"
            /\ Len(trace) >= 6
            /\ \E n \in 1..Len(trace) : trace[n].op = "gpio_put" /\ trace[n].arg = 0)
    /\ [][(w.pc = "done" /\ w.ret # 0) =>
            (pc' = "ret" /\ result' = DHT22_ERROR_TIMEOUT)]_vars

\* a read that returns OK after the read before it timed out
C4_Witness ==
    /\ ReadReturns(DHT22_OK)
    /\ prior.read
    /\ prior.ret = DHT22_ERROR_TIMEOUT

\* the sum of bytes 0 to 3 of a frame
ByteSum(d) == d[0] + d[1] + d[2] + d[3]

\* C5: the checksum of a captured frame is accepted if and only if byte 4 equals
\* (byte0 + byte1 + byte2 + byte3) mod 256: the read goes on to the conversion
\* only with such a frame, and returns Checksum exactly for the others.
C5_ChecksumRule ==
    op = "read" =>
        /\ pc = "convert" => data[4] = ByteSum(data) % 256
        /\ pc = "ret" =>
              (result = DHT22_ERROR_CHECKSUM <=> data[4] # ByteSum(data) % 256)

\* a frame whose byte 4 is the untruncated sum minus 256 plus 1 is refused
C5_Witness ==
    /\ ReadReturns(DHT22_ERROR_CHECKSUM)
    /\ ByteSum(data) > 255
    /\ data[4] = (ByteSum(data) + 1) % 256

\* bit j of a frame buffer: byte j div 8, bit position 7 - (j mod 8)
DataBit(d, j) == (d[j \div 8] \div 2^(7 - (j % 8))) % 2

\* What the first n pulses of plan p put into byte k, a pulse above 50 us
\* being a 1 at bit position 7 - (j mod 8) of byte j div 8.
RECURSIVE DecodedByte(_, _, _, _)
DecodedByte(p, k, n, b) ==
    IF b > 7 THEN 0
    ELSE (IF 8 * k + b < n /\ PulseOf(p, 8 * k + b) > 50 THEN 2^(7 - b) ELSE 0)
            + DecodedByte(p, k, n, b + 1)

Decoded ==
    [p \in 1..Len(Plans) |->
        [n \in 1..NUM_BITS |-> [k \in 0..4 |-> DecodedByte(p, k, n, 0)]]]

\* C6: at every point of a read, bit j of the buffer is 1 exactly when j is one
\* of the i bits captured so far and its high pulse lasted more than 50 us, the
\* bits not yet captured being 0; the pulse just measured is the one the sensor
\* sent, and it decoded to 1 exactly when longer than 50 us (49 and 50 give 0,
\* 51 gives 1).
C6_BitDecoding ==
    op = "read" =>
        /\ i \in 0..NUM_BITS
        /\ data = IF i = 0 THEN [k \in 0..4 |-> 0] ELSE Decoded[sensor.plan][i]
        /\ i > 0 =>
              /\ pulse_length = PulseOf(sensor.plan, i - 1)
              /\ DataBit(data, i - 1) = IF pulse_length > 50 THEN 1 ELSE 0
              /\ pulse_length \in {49, 50} => DataBit(data, i - 1) = 0
              /\ pulse_length = 51 => DataBit(data, i - 1) = 1

\* all 40 bits captured from pulses of 50 us (0) and 51 us (1)
C6_Witness ==
    /\ op = "read"
    /\ pc = "stamp"
    /\ i = NUM_BITS
    /\ Plans[sensor.plan].t0 = 50
    /\ Plans[sensor.plan].t1 = 51
    /\ \A k \in 0..4 : data[k] = Plans[sensor.plan].frame[k + 1]

Converted == op = "read" /\ pc = "ret"
                /\ result \in {DHT22_OK, DHT22_ERROR_INVALID_DATA}

\* C7: what the conversion stores: the humidity is 256 * byte0 + byte1 tenths
\* and not negated; the temperature has the magnitude 256 * (byte2 mod 128) + byte3
\* tenths and is negated exactly when the top bit of byte 2 is set.  So 01 F4 is
\* 50.0 %, 00 C8 is 20.0 C and 80 C8 is -20.0 C.
C7_Conversion ==
    Converted =>
        /\ humidity = [neg |-> FALSE, tenths |-> 256 * data[0] + data[1]]
        /\ temperature = [neg |-> data[2] >= 128,
                          tenths |-> 256 * (data[2] % 128) + data[3]]
        /\ (data[0] = 1 /\ data[1] = 244) => TenthsOf(humidity) = 500
        /\ (data[2] = 0 /\ data[3] = 200) => TenthsOf(temperature) = 200
        /\ (data[2] = 128 /\ data[3] = 200) => TenthsOf(temperature) = -200

C7_Witness ==
    /\ ReadReturns(DHT22_OK)
    /\ data[0] = 1 /\ data[1] = 244 /\ data[2] = 128 /\ data[3] = 200
    /\ TenthsOf(humidity) = 500
    /\ TenthsOf(temperature) = -200

\* the readings of a frame, in tenths
FrameHumidity(d) == 256 * d[0] + d[1]

FrameTemperature(d) ==
    IF d[2] >= 128 THEN 0 - (256 * (d[2] - 128) + d[3]) ELSE 256 * d[2] + d[3]

\* C8: a read whose frame passes the checksum returns InvalidData if the
\* humidity is above 100.0 or the temperature is below -40.0 or above 80.0, and
\* OK otherwise: 100.0, -40.0 and 80.0 are accepted.
C8_RangeCheck ==
    (op = "read" /\ pc = "ret" /\ i = NUM_BITS /\ data[4] = ByteSum(data) % 256) =>
        result = IF \/ FrameHumidity(data) > 1000
                    \/ FrameTemperature(data) < -400
                    \/ FrameTemperature(data) > 800
                 THEN DHT22_ERROR_INVALID_DATA
                 ELSE DHT22_OK

\* 150.0 % with a valid checksum and a temperature in range is rejected
C8_Witness ==
    /\ ReadReturns(DHT22_ERROR_INVALID_DATA)
    /\ data[4] = ByteSum(data) % 256
    /\ FrameHumidity(data) = 1500
    /\ FrameTemperature(data) = 200

\* C9: dht22_init returns OK and leaves the driver with the given pin, a cleared
\* timestamp and the initialized flag set, whatever state it was called in; the
\* flag, once set, stays set.
C9_InitMakesReady ==
    /\ []((op = "init" /\ pc = "ret") =>
            /\ result = DHT22_OK
            /\ dht22_state = [last_read_time_ms |-> 0, pin |-> arg_pin,
                              initialized |-> TRUE])
    /\ [][dht22_state.initialized => dht22_state'.initialized]_vars

\* an init of an initialised driver that had a timestamp and another pin
C9_Witness ==
    /\ op = "init"
    /\ pc = "ret"
    /\ entry.state.initialized
    /\ entry.state.last_read_time_ms # 0
    /\ entry.state.pin # arg_pin
    /\ dht22_state.last_read_time_ms = 0

\* C10: a calibration with a positive actual weight stores
\* known_weight_reading / actual_weight, and calculate_weight returns the
\* reading divided by the scale factor of the latest stored calibration:
\* after calibrate(1000, 5.0) the factor is 200 and calculate_weight(400) is 2.0.
C10_CalibrateThenWeigh ==
    /\ (hx_ret.op = "calibrate_hx711" /\ hx_ret.value.num > 0) =>
          /\ hx_cal = [known_weight_reading |-> hx_ret.reading,
                       actual_weight |-> hx_ret.value]
          /\ scale_factor.num * hx_ret.value.num
                = scale_factor.den * hx_ret.reading * hx_ret.value.den
    /\ (hx_ret.op = "calculate_weight" /\ hx_ret.ok) =>
          /\ hx_ret.value.num * scale_factor.num
                = hx_ret.value.den * hx_ret.reading * scale_factor.den
          /\ scale_factor.num * hx_cal.actual_weight.num
                = scale_factor.den * hx_cal.known_weight_reading
                    * hx_cal.actual_weight.den
    /\ hx_cal = [known_weight_reading |-> 1000, actual_weight |-> Rat(5)] =>
          /\ scale_factor = Rat(200)
          /\ (hx_ret.op = "calculate_weight" /\ hx_ret.reading = 400) =>
                hx_ret.value = Rat(2)

C10_Witness ==
    /\ hx_cal = [known_weight_reading |-> 1000, actual_weight |-> Rat(5)]
    /\ scale_factor = Rat(200)
    /\ hx_ret = [op |-> "calculate_weight", ok |-> TRUE, reading |-> 400,
                 value |-> Rat(2)]

\* C11: a calibrate_hx711 call whose actual_weight is zero or negative is
\* rejected: the step stores nothing, the scale factor and the stored
\* calibration stay what they were; so the stored calibration always has a
\* positive actual weight (or none was stored yet).
C11_CalibrateRejectsNonPositive ==
    /\ [][(hx_ret'.op = "calibrate_hx711" /\ hx_ret'.value.num <= 0) =>
            /\ ~hx_ret'.ok
            /\ scale_factor' = scale_factor
            /\ hx_cal' = hx_cal]_vars
    /\ [](hx_cal.actual_weight.num >= 0)
    /\ [](hx_cal.actual_weight.num = 0 => scale_factor = Rat(0))

\* calibrate(_, -2) refused after calibrate(1000, 5.0): the factor is still 200
C11_Witness ==
    /\ hx_ret.op = "calibrate_hx711"
    /\ hx_ret.value = Rat(-2)
    /\ ~hx_ret.ok
    /\ hx_cal = [known_weight_reading |-> 1000, actual_weight |-> Rat(5)]
    /\ scale_factor = Rat(200)

\* C12: calculate_weight never divides by a scale factor of zero: a call made
\* while the factor is zero (before any calibration, or after a calibration with
\* a raw reading of 0) reports the violated precondition, and a call that returns
\* a weight was made with a non-zero factor and returns reading / scale_factor,
\* a fraction with a non-zero denominator.
C12_NoDivisionByZeroScale ==
    hx_ret.op = "calculate_weight" =>
        /\ hx_ret.ok <=> scale_factor.num # 0
        /\ hx_ret.value.den # 0
        /\ hx_ret.ok =>
              hx_ret.value.num * scale_factor.num
                = hx_ret.value.den * hx_ret.reading * scale_factor.den

\* calculate_weight refused after a calibration with a raw reading of 0
C12_Witness ==
    /\ hx_ret.op = "calculate_weight"
    /\ ~hx_ret.ok
    /\ hx_ret.reading # 0
    /\ hx_cal.known_weight_reading = 0
    /\ hx_cal.actual_weight.num > 0
    /\ scale_factor = Rat(0)

\* C13: wait_for_pin_state returns 0 only when its latest sample of the pin was
\* the target level, and -1 only when its latest sample was the other level and
\* more than timeout_us microseconds have passed since the call began (at time
\* 0 here); a sample at the target level, the first one included, makes it
\* return 0 at once whatever the timeout; and while it runs the driver state,
\* the pins' directions, output latches and pulls do not change.
C13_WaitContract ==
    /\ []((w.pc = "done" /\ w.ret = 0) => GpioGet(dht22_state.pin) = w.state)
    /\ []((w.pc = "done" /\ w.ret # 0) =>
            /\ w.ret = -1
            /\ GpioGet(dht22_state.pin) # w.state
            /\ now - entry.now > w.timeout_us)
    /\ [][(w.pc = "poll" /\ GpioGet(dht22_state.pin) = w.state) =>
            (w'.pc = "done" /\ w'.ret = 0 /\ now' = now)]_vars
    /\ [][w.pc \in {"start", "poll", "time", "spin"} =>
            UNCHANGED <<dht22_state, gpio_dir, gpio_out, gpio_pull>>]_vars
    /\ [](w.pc # "none" =>
            /\ dht22_state = entry.state
            /\ gpio_dir = entry.dir
            /\ gpio_out = entry.out)

\* the pin is at the target level on the first sample and the timeout is 0
C13_Witness ==
    /\ w.pc = "done"
    /\ w.ret = 0
    /\ w.timeout_us = 0
    /\ now = entry.now
    /\ hwUsed = {"time_us_32", "gpio_get"}

\* the steps of the start signal, in order: what is called, with what argument
\* (gpio_set_dir: 1 = GPIO_OUT, 0 = GPIO_IN)
StartSignalSteps == <<
    <<"gpio_set_dir", 1>>,
    <<"gpio_put", 0>>,
    <<"sleep_us", 18000>>,
    <<"gpio_put", 1>>,
    <<"sleep_us", 30>>,
    <<"gpio_set_dir", 0>> >>

\* the positions of a read at which the pin is an output
DrivingLabels == {"ss_put_low", "ss_sleep_low", "ss_put_high", "ss_sleep_high",
                  "ss_dir_in"}

\* how many steps of the start signal a read at position l has made
StartStepsDone(l) ==
    CASE l \in {"read", "rate", "ss_dir_out"} -> 0
      [] l = "ss_put_low" -> 1
      [] l = "ss_sleep_low" -> 2
      [] l = "ss_put_high" -> 3
      [] l = "ss_sleep_high" -> 4
      [] l = "ss_dir_in" -> 5
      [] OTHER -> 6

\* what the read wrote to the pin and slept, the rate-limit sleep left out
SignalTrace ==
    IF trace # <<>> /\ trace[1].op = "sleep_ms" THEN Tail(trace) ELSE trace

\* C14: a read of an initialised driver makes, in this order and nothing else:
\* pin to output, pin low, sleep 18000 us, pin high, sleep 30 us, pin to input
\* (so the pin is low for 18000 us and then high for 30 us); a pin is an output
\* only between the first and the last of these steps of a read on that pin,
\* hence an input during every edge wait, at every return and between calls.
C14_StartSignalSequence ==
    /\ \A p \in Pins :
          gpio_dir[p] = "out" =>
              (op = "read" /\ p = dht22_state.pin /\ pc \in DrivingLabels)
    /\ (op = "read" /\ entry.state.initialized) =>
          LET T == SignalTrace
          IN  /\ Len(T) = StartStepsDone(pc)
              /\ \A j \in 1..Len(T) :
                    /\ T[j].op = StartSignalSteps[j][1]
                    /\ T[j].arg = StartSignalSteps[j][2]
              /\ Len(T) >= 4 => T[4].at = T[2].at + 18000
              /\ Len(T) = 6 => T[6].at = T[4].at + 30
              /\ gpio_dir[dht22_state.pin] = "out" <=> pc \in DrivingLabels
              /\ pc \in {"ss_sleep_low", "ss_put_high"} => gpio_out[dht22_state.pin] = 0
              /\ pc \in {"ss_sleep_high", "ss_dir_in"} => gpio_out[dht22_state.pin] = 1
              /\ (pc \in WaitLabels \/ pc = "ret") => gpio_dir[dht22_state.pin] = "in"

\* a read that slept for the rate limit, made the start signal and timed out
C14_Witness ==
    /\ ReadReturns(DHT22_ERROR_TIMEOUT)
    /\ Len(trace) = 7
    /\ trace[1].op = "sleep_ms"
    /\ trace[7] = [op |-> "gpio_set_dir", arg |-> 0, at |-> trace[3].at + 18030]
    /\ gpio_dir[dht22_state.pin] = "in"

RespLabels == {"resp1", "resp2", "resp3"}

BitLabels == {"bit_rise", "bit_mark", "bit_fall", "bit_store"}

\* C15: the acknowledgement is awaited as three edge waits, for low, for high
\* and for low, each with a timeout of 200 us: the first begins when the start
\* signal has released the pin, each next one only when the one before returned
\* 0, and the capture of bit 0 only when the third returned 0; one of them
\* returning -1 makes the read return Timeout with no bit captured.
C15_ResponseHandshake ==
    /\ []((pc \in RespLabels /\ w.pc # "none") =>
            /\ w.state = (IF pc = "resp2" THEN 1 ELSE 0)
            /\ w.timeout_us = 200)
    /\ [](pc \in RespLabels => (i = 0 /\ data = ZeroData /\ Len(SignalTrace) = 6))
    /\ [][(pc' = "resp1" /\ pc # "resp1") => pc = "ss_dir_in"]_vars
    /\ [][(pc' = "resp2" /\ pc # "resp2") =>
            (pc = "resp1" /\ w.pc = "done" /\ w.ret = 0)]_vars
    /\ [][(pc' = "resp3" /\ pc # "resp3") =>
            (pc = "resp2" /\ w.pc = "done" /\ w.ret = 0)]_vars
    /\ [][(pc' \in BitLabels /\ pc \notin BitLabels) =>
            (pc = "resp3" /\ w.pc = "done" /\ w.ret = 0 /\ pc' = "bit_rise" /\ i' = 0)]_vars
    /\ [][(pc \in RespLabels /\ w.pc = "done") =>
            IF w.ret = 0
            THEN pc' \in (RespLabels \cup {"bit_rise"}) /\ pc' # pc
            ELSE /\ pc' = "ret"
                 /\ result' = DHT22_ERROR_TIMEOUT
                 /\ i' = 0
                 /\ data' = ZeroData
                 /\ dht22_state' = dht22_state]_vars

\* the sensor pulled low and released, then stopped: the third wait timed out
C15_Witness ==
    /\ ReadReturns(DHT22_ERROR_TIMEOUT)
    /\ sensor.k = 2
    /\ ~sensor.alive
    /\ line = 1
    /\ i = 0
    /\ data = ZeroData

ReturnCodes == {DHT22_OK, DHT22_ERROR_NOT_INITIALIZED, DHT22_ERROR_TIMEOUT,
                DHT22_ERROR_CHECKSUM, DHT22_ERROR_INVALID_DATA}

\* the rate-limit sleeps a call has made
RateSleeps == {n \in 1..Len(trace) : trace[n].op = "sleep_ms"}

\* the microseconds a call has slept for the rate limit
RateSleptUs == IF 1 \in RateSleeps THEN 1000 * trace[1].arg ELSE 0

\* C16: every dht22_read returns, with one of the five codes, however the
\* sensor behaves (absent, holding the wire low or high, stopping after any
\* edge, transmitting to the end), given that the processor runs and the clock
\* advances; on the way it makes at most one rate-limit sleep (the first thing
\* it does, of at most 2000 ms), at most the six steps of one start signal and
\* at most 3 + 80 edge waits, each over at the first clock reading past its
\* 200 us, so that the call lasts at most the sleep + 18030 + 201 us per wait.
C16_ReadTerminates ==
    /\ (op = "read") ~> (op = "read" /\ pc = "ret" /\ result \in ReturnCodes)
    /\ [](op = "read" =>
            /\ waits <= 3 + 80
            /\ RateSleeps \subseteq {1}
            /\ RateSleptUs <= 2000 * 1000
            /\ Len(SignalTrace) <= 6
            /\ now - entry.now <= RateSleptUs + 18030 + 201 * waits)
    /\ [](pc = "ret" => result \in ReturnCodes)

\* a rate-limited read whose last edge wait, the 83rd, timed out
C16_Witness ==
    /\ ReadReturns(DHT22_ERROR_TIMEOUT)
    /\ waits = 83
    /\ i = NUM_BITS - 1
    /\ RateSleeps = {1}
    /\ now - entry.now > RateSleptUs + 18030 + 201

ChecksumValid(d) == d[4] = ByteSum(d) % 256

FrameInRange(d) ==
    /\ FrameHumidity(d) <= 1000
    /\ FrameTemperature(d) >= -400
    /\ FrameTemperature(d) <= 800

\* C17: what a read of an initialised driver returns is decided by the first
\* stage that fails, in the order handshake and capture, checksum, conversion:
\* Timeout exactly when fewer than 40 bits were captured; with 40 bits,
\* Checksum exactly when the checksum is wrong, whatever the frame decodes to;
\* InvalidData exactly when the checksum is right and a value out of range;
\* OK exactly when the checksum is right and the values in range.
C17_FirstFailingStage ==
    (op = "read" /\ pc = "ret" /\ entry.state.initialized) =>
        /\ result = DHT22_ERROR_TIMEOUT <=> i < NUM_BITS
        /\ result = DHT22_ERROR_CHECKSUM <=> (i = NUM_BITS /\ ~ChecksumValid(data))
        /\ result = DHT22_ERROR_INVALID_DATA <=>
              (i = NUM_BITS /\ ChecksumValid(data) /\ ~FrameInRange(data))
        /\ result = DHT22_OK <=>
              (i = NUM_BITS /\ ChecksumValid(data) /\ FrameInRange(data))

\* a frame with a wrong checksum that decodes to 150.0 % and 90.0 C
C17_Witness ==
    /\ ReadReturns(DHT22_ERROR_CHECKSUM)
    /\ ~ChecksumValid(data)
    /\ FrameHumidity(data) = 1500
    /\ FrameTemperature(data) = 900

\* C18: the caller's outputs (Unset when the call is made) are written by the
\* conversion and by nothing else: they are untouched while the read runs and
\* when it returns NotInitialized, Timeout or Checksum; when it returns
\* InvalidData or OK both hold the values decoded from the frame, in range or
\* not.
C18_OutputsWrittenByConversion ==
    /\ [](op = "read" =>
            /\ (pc # "ret" \/ result \in {DHT22_ERROR_NOT_INITIALIZED,
                                           DHT22_ERROR_TIMEOUT,
                                           DHT22_ERROR_CHECKSUM}) =>
                  (temperature = Unset /\ humidity = Unset)
            /\ (pc = "ret" /\ result \in {DHT22_ERROR_INVALID_DATA, DHT22_OK}) =>
                  /\ humidity = FromTenths(FrameHumidity(data))
                  /\ TenthsOf(temperature) = FrameTemperature(data)
                  /\ temperature.tenths >= 0
                  /\ temperature.neg <=> data[2] >= 128)
    /\ [][(op = "read" /\ (temperature' # temperature \/ humidity' # humidity)) =>
            (pc = "convert" /\ pc' = "ret")]_vars

\* InvalidData returned with 150.0 % stored in *humidity
C18_Witness ==
    /\ ReadReturns(DHT22_ERROR_INVALID_DATA)
    /\ TenthsOf(humidity) = 1500
    /\ TenthsOf(temperature) = 200

C19_ReinitReached ==
    /\ op = "read"
    /\ pc = "ss_dir_out"
    /\ ~prior.read
    /\ calls = 4
    /\ current_time = epoch.ms + 1000
    /\ trace = <<>>

\* a read made 1000 ms after a read that timed out
C19_AfterTimeoutReached ==
    /\ op = "read"
    /\ pc = "ss_dir_out"
    /\ prior.read
    /\ prior.ret = DHT22_ERROR_TIMEOUT
    /\ ~prior.stamped
    /\ now = entry.now
    /\ current_time = epoch.ms + 1000

\* C20: the elapsed times the driver computes by unsigned subtraction are the
\* real ones, also when the clock wraps to 0 between the two readings: in an
\* edge wait the elapsed microseconds are those since the wait read its start,
\* a wait that times out does so at the first reading past its timeout and one
\* that succeeds has not run past it; a pulse is measured with its real length
\* and classified by it; and the milliseconds since the stored timestamp, in
\* the rate-limit check, are the real ones, the sleep being the remainder of
\* the 2000 ms when the timestamp is not 0.
C20_ElapsedAcrossWrap ==
    /\ [](w.pc \in {"poll", "time", "spin", "done"} =>
            SubU32(TimeUs32, w.start) = now - real.wait)
    /\ []((w.pc = "done" /\ w.ret # 0) => now - real.wait = w.timeout_us + 1)
    /\ []((w.pc = "done" /\ w.ret = 0) => now - real.wait <= w.timeout_us + 1)
    /\ [][pc = "bit_store" =>
            /\ pulse_length' = now - real.pulse
            /\ DataBit(data', i) = (IF now - real.pulse > 50 THEN 1 ELSE 0)]_vars
    /\ []((op = "read" /\ pc = "ss_dir_out" /\ prior.stamped) =>
            LET L == dht22_state.last_read_time_ms
                elapsed == (entry.now \div 1000) - real.stamp
            IN  /\ SubU32(current_time, L) = elapsed
                /\ (L # 0 /\ elapsed < 2000) =>
                      /\ RateSleeps = {1}
                      /\ trace[1].arg = 2000 - elapsed
                      /\ now = entry.now + 1000 * (2000 - elapsed))

\* an edge wait that began before the microsecond counter wrapped to 0 and
\* timed out after it, 201 us after its start
C20_Witness ==
    /\ w.pc = "done"
    /\ w.ret = -1
    /\ w.start < 0
    /\ TimeUs32 >= 0
    /\ now - real.wait = 201

\* a pulse that began before the wrap and ended after it, measured as 26 us
C20_PulseAcrossWrapReached ==
    /\ op = "read"
    /\ pc = "bit_rise"
    /\ i > 0
    /\ pulse_start < 0
    /\ pulse_start + pulse_length >= 0
    /\ pulse_length = 26
    /\ DataBit(data, i - 1) = 0

\* a rate-limit check after the millisecond clock wrapped since the timestamp
C20_MsAcrossWrapReached ==
    /\ op = "read"
    /\ pc = "ss_dir_out"
    /\ prior.stamped
    /\ dht22_state.last_read_time_ms < 0
    /\ current_time >= 0
    /\ RateSleeps = {1}

====
